---- MODULE Spec2Model ----
(***************************************************************************)
(* passfuse: the pass secret store served as a read-only FUSE filesystem.  *)
(* The model follows the latest revision of package fs (NewPassFS with     *)
(* PassFsOptions, the size cache and the two projections) and package      *)
(* pass (GetSecret, GetFirstLine, GetSecretSize).                          *)
(*                                                                         *)
(* Strings are sequences of one-character strings, so that the string      *)
(* functions of the code (Split, Replace, TrimSuffix) are computed and not *)
(* assumed.                                                                *)
(***************************************************************************)
EXTENDS Integers, Sequences, FiniteSets, TLC

VARIABLES
    options,            \* PassFsOptions given to NewPassFS
    Prefix,             \* args.Prefix, given to NewPassFS: the store path to mount
    disk,               \* the store directory on disk, as ioutil.ReadDir lists it
    unreadable,         \* the store paths ioutil.ReadDir fails on
    main,               \* the position of main, and of the build it runs
    rootNode,           \* the pass.Node tree GetPassTree returned
    store,              \* the secret store: secret name -> decrypted body
    mounted,            \* NewPassFS has returned the server
    inodes,             \* passFS.inodes
    allocatableInode,   \* passFS.allocatableInode
    sizeMap,            \* passFS.sizeMap
    mutex,              \* passFS.mutex: the thread holding it, or NoThread
    allocLog,           \* history: the ids allocateInode returned, in order
    decryptCalls,       \* history: per inode id, decryptions getSize started
    decryptOk,          \* history: per inode id, decryptions getSize saw succeed
    pc,                 \* per request thread: its position in the handler
    req,                \* per request thread: the request it serves
    result,             \* per request thread: the last handler's reply
    call,               \* the call served last, when it was not a lookup: its
                        \* arguments and what it returned
    rd,                 \* a client listing one directory with ReadDir
    rf                  \* a client reading one file with ReadFile

vars == <<options, Prefix, disk, unreadable, main, rootNode, store, call, mounted, inodes, allocatableInode, sizeMap,
          mutex, allocLog, decryptCalls, decryptOk, pc, req, result, rd, rf>>

(***************************************************************************)
(* Bounds of the model.                                                    *)
(***************************************************************************)
MaxDepth == 2
NumThreads == 2
MaxBody == 3
MaxDst == 3
MaxCalls == 2
ExtraDirents == 1
MaxAllocs == 2

(***************************************************************************)
(* Program constants.                                                      *)
(***************************************************************************)
RootInodeID == 1
DirentHeader == 24
DirentAlignment == 8

secretSuffix == <<".", "g", "p", "g">>
secretFileSuffix == <<".", "g", "p", "g">>
secretContentsSuffix == <<".", "c", "o", "n", "t", "e", "n", "t", "s">>
firstLineSuffix == <<".", "f", "i", "r", "s", "t", "-", "l", "i", "n", "e">>

Contents == "Contents"
FirstLine == "FirstLine"

suffixMap(nodeType) ==
    IF nodeType = Contents THEN secretContentsSuffix ELSE firstLineSuffix

DT_File == "DT_File"
DT_Directory == "DT_Directory"

NoThread == 0
Threads == 1..NumThreads

(***************************************************************************)
(* The string functions the code uses.                                     *)
(***************************************************************************)
HasPrefixAt(s, i, sub) ==
    /\ i + Len(sub) - 1 <= Len(s)
    /\ SubSeq(s, i, i + Len(sub) - 1) = sub

\* strings.Index: the first position sub occurs at, 0 when it does not occur
Index(s, sub) ==
    IF \E i \in 1..Len(s) : HasPrefixAt(s, i, sub)
    THEN CHOOSE i \in 1..Len(s) :
            /\ HasPrefixAt(s, i, sub)
            /\ \A j \in 1..(i - 1) : ~HasPrefixAt(s, j, sub)
    ELSE 0

\* s with the occurrence of old at i (0: none) replaced by new
ReplaceAt(s, old, new, i) ==
    IF i = 0 THEN s
    ELSE SubSeq(s, 1, i - 1) \o new \o SubSeq(s, i + Len(old), Len(s))

\* strings.Replace(s, old, new, 1): the first occurrence only
Replace1(s, old, new) == ReplaceAt(s, old, new, Index(s, old))

\* strings.TrimSuffix
TrimSuffix(s, suffix) ==
    IF Len(s) >= Len(suffix) /\ SubSeq(s, Len(s) - Len(suffix) + 1, Len(s)) = suffix
    THEN SubSeq(s, 1, Len(s) - Len(suffix))
    ELSE s

\* strings.Split(s, sep) for a one-character sep: always at least one segment
RECURSIVE Split(_, _)
RECURSIVE SplitAt(_, _, _)
SplitAt(s, sep, i) ==
    IF i = 0 THEN <<s>>
    ELSE <<SubSeq(s, 1, i - 1)>> \o Split(SubSeq(s, i + 1, Len(s)), sep)

Split(s, sep) == SplitAt(s, sep, Index(s, <<sep>>))

Last(seq) == seq[Len(seq)]

\* path.Join(prefix, name) for clean, non-empty name
PathJoin(prefix, name) ==
    IF prefix = <<>> THEN name ELSE prefix \o <<"/">> \o name

(***************************************************************************)
(* package pass: the tree of secrets and the decryption collaborator.      *)
(***************************************************************************)
Leaf(secret) == [IsLeaf |-> TRUE, Secret |-> secret, Children |-> <<>>]

DirNode(secret, children) == [IsLeaf |-> FALSE, Secret |-> secret, Children |-> children]

\* the names a store directory may hold, in the order ioutil.ReadDir lists them
FileA == <<"a", ".", "g", "p", "g">>
FileB == <<"b", ".", "g", "p", "g">>
DirD == <<"d">>

\* The child lists GetNodes can produce below prefix, directories nested to depth
RECURSIVE ChildLists(_, _)
ChildLists(prefix, depth) ==
    { a \o b \o d :
        a \in {<<>>, <<Leaf(PathJoin(prefix, FileA))>>},
        b \in {<<>>, <<Leaf(PathJoin(prefix, FileB))>>},
        d \in IF depth = 0 THEN {<<>>}
              ELSE {<<>>} \cup
                   { <<DirNode(PathJoin(prefix, DirD), cl)>> :
                        cl \in ChildLists(PathJoin(prefix, DirD), depth - 1) } }

\* The trees GetPassTree returns for the whole store (prefix "")
Trees(depth) == { DirNode(<<>>, cl) : cl \in ChildLists(<<>>, depth) }

RECURSIVE Descendants(_)
Descendants(node) ==
    UNION { {node.Children[i]} \cup Descendants(node.Children[i]) :
                i \in 1..Len(node.Children) }

\* an entry of a store directory as ioutil.ReadDir returns it
File(name) == [Name |-> name, IsDir |-> FALSE, Items |-> <<>>]

Dir(name, items) == [Name |-> name, IsDir |-> TRUE, Items |-> items]

IsHiddenNever(name) == FALSE

\* strings.HasPrefix(item.Name(), ".")
IsHidden(name) == HasPrefixAt(name, 1, <<".">>)

StatExistsNever(siblings, name) == FALSE

\* os.Stat of a path in the directory holding siblings: does the name exist
StatExists(siblings, name) == \E i \in 1..Len(siblings) : siblings[i].Name = name

\* path.Split(prefix), the directory part with its trailing slash trimmed
DirPart(prefix) ==
    IF Index(prefix, <<"/">>) = 0 THEN <<>>
    ELSE SubSeq(prefix, 1, Len(prefix) - Len(Last(Split(prefix, "/"))) - 1)

\* GetNodes for the entry item at path prefix, siblings being the directory
\* that holds it: a file is a leaf; a directory beside a secret of its own
\* name stands for that one secret; any other directory is read, its
\* dot-prefixed entries skipped
RECURSIVE GetNodes(_, _, _)
RECURSIVE ChildNodes(_, _, _)
GetNodes(siblings, item, prefix) ==
    IF ~item.IsDir THEN Leaf(prefix)
    ELSE IF StatExists(siblings, item.Name \o secretSuffix)
    THEN DirNode(DirPart(prefix), <<Leaf(prefix \o secretSuffix)>>)
    ELSE DirNode(prefix, ChildNodes(item.Items, prefix, 1))

\* the loop of GetNodes over the entries ioutil.ReadDir returned
ChildNodes(items, prefix, i) ==
    IF i > Len(items) THEN <<>>
    ELSE IF IsHidden(items[i].Name) THEN ChildNodes(items, prefix, i + 1)
    ELSE <<GetNodes(items, items[i], PathJoin(prefix, items[i].Name))>>
            \o ChildNodes(items, prefix, i + 1)

\* GetPassTree for the whole store d (prefix "")
GetPassTree(d) == GetNodes(<<>>, Dir(<<>>, d), <<>>)

\* the path segments of a store path ("" has none)
Segs(p) == IF p = <<>> THEN <<>> ELSE Split(p, "/")

\* the positions of the entries of a directory listing carrying name
Named(items, name) == {k \in 1..Len(items) : items[k].Name = name}

\* the entry the path segs[i..] names below item: a set, empty when none does
RECURSIVE Resolve(_, _, _)
Resolve(item, segs, i) ==
    IF i > Len(segs) THEN {item}
    ELSE IF ~item.IsDir THEN {}
    ELSE UNION { Resolve(item.Items[k], segs, i + 1) : k \in Named(item.Items, segs[i]) }

\* the entries found at path p of the store d
Found(d, p) == Resolve(Dir(<<>>, d), Segs(p), 1)

\* the listing of the directory that holds path p, where os.Stat looks p.gpg up
SiblingsAt(d, p) ==
    IF p = <<>> \/ Found(d, DirPart(p)) = {} THEN <<>>
    ELSE (CHOOSE item \in Found(d, DirPart(p)) : TRUE).Items

\* the directory at path p; GetPassTree takes the path for a directory
\* (root.IsLeaf is false) whatever is there
DirAt(d, p) ==
    IF \E item \in Found(d, p) : item.IsDir
    THEN CHOOSE item \in Found(d, p) : item.IsDir
    ELSE Dir(Last(Split(p, "/")), <<>>)

\* GetPassTree(basePath, prefix) for the store d
GetPassTreeAt(d, p) == GetNodes(SiblingsAt(d, p), DirAt(d, p), p)

\* whether GetNodes returns an error: ioutil.ReadDir fails on the paths of
\* bad, and the error of a child is returned at once
RECURSIVE GetNodesErr(_, _, _, _)
RECURSIVE ChildErr(_, _, _, _)
GetNodesErr(siblings, item, p, bad) ==
    IF ~item.IsDir THEN FALSE
    ELSE IF StatExists(siblings, item.Name \o secretSuffix) THEN FALSE
    ELSE IF p \in bad THEN TRUE
    ELSE ChildErr(item.Items, p, 1, bad)

ChildErr(items, p, i, bad) ==
    IF i > Len(items) THEN FALSE
    ELSE IF IsHidden(items[i].Name) THEN ChildErr(items, p, i + 1, bad)
    ELSE \/ GetNodesErr(items, items[i], PathJoin(p, items[i].Name), bad)
         \/ ChildErr(items, p, i + 1, bad)

\* whether GetPassTree(basePath, prefix) returns an error: ioutil.ReadDir
\* fails also on a path that is no directory
GetPassTreeErr(d, p, bad) ==
    IF StatExists(SiblingsAt(d, p), Last(Split(p, "/")) \o secretSuffix) THEN FALSE
    ELSE IF \A item \in Found(d, p) : ~item.IsDir THEN TRUE
    ELSE GetNodesErr(SiblingsAt(d, p), DirAt(d, p), p, bad)

\* Node{}: what GetPassTree returns beside an error
NoNode == DirNode(<<>>, <<>>)

\* store entries beside the plain ones: a dot-prefixed file, a dot-prefixed
\* directory, and the file of a secret whose own name ends in .gpg
HiddenFile == <<".", "h", ".", "g", "p", "g">>
HiddenDir == <<".", "g">>
FileAA == <<"a", ".", "g", "p", "g", ".", "g", "p", "g">>

\* the listings of one directory, in the name order of ioutil.ReadDir
FlatDisks ==
    { g \o h \o a \o aa :
        g \in {<<>>, <<Dir(HiddenDir, <<File(FileA)>>)>>},
        h \in {<<>>, <<File(HiddenFile)>>},
        a \in {<<>>, <<File(FileA)>>},
        aa \in {<<>>, <<File(FileAA)>>} }

\* the stores: one directory, with or without a sub-directory d of the same kind
Disks ==
    { f \o d : f \in FlatDisks,
                d \in {<<>>} \cup { <<Dir(DirD, items)>> : items \in FlatDisks } }

\* a store directory on disk holding exactly the children given, in their order
RECURSIVE DiskOf(_)
DiskOf(children) ==
    [i \in 1..Len(children) |->
        [Name  |-> Last(Split(children[i].Secret, "/")),
         IsDir |-> ~children[i].IsLeaf,
         Items |-> DiskOf(children[i].Children)]]

\* the name pass is run with: the secret path minus the .gpg suffix
PassName(secretName) == TrimSuffix(secretName, secretSuffix)

\* the secrets of the store: the leaves of the tree, by pass name
StoreNames(root) == { PassName(n.Secret) : n \in {d \in Descendants(root) : d.IsLeaf} }

\* what pass prints for a directory (its listing; only a stand-in text is kept)
DirListing == <<"d", "\n">>

\* the standard output of pass for name
PassOutput(name) == IF name \in DOMAIN store THEN store[name] ELSE DirListing

\* GetSecret: runs pass; ok is whether the process succeeded
GetSecret(secretName, ok) ==
    IF ok THEN [err |-> "nil", body |-> PassOutput(PassName(secretName))]
    ELSE [err |-> "error", body |-> <<>>]

GetFirstLineWithNewline(secretBody) ==
    SubSeq(secretBody, 1,
           IF Index(secretBody, <<"\n">>) = 0 THEN Len(secretBody)
           ELSE Index(secretBody, <<"\n">>))

\* GetFirstLine: the first segment of the body split on newline
GetFirstLine(secretBody) == Split(secretBody, "\n")[1]

SizeOfWholeBody(s, nodeType) ==
    IF s.err # "nil" THEN [err |-> "error", size |-> 0]
    ELSE [err |-> "nil", size |-> Len(s.body)]

\* the size GetSecretSize reports for the secret GetSecret returned as s
SizeOfSecret(s, nodeType) ==
    IF s.err # "nil" THEN [err |-> "error", size |-> 0]
    ELSE [err |-> "nil",
          size |-> IF nodeType = Contents THEN Len(s.body)
                   ELSE Len(GetFirstLine(s.body))]

\* GetSecretSize: the byte length of the projection nodeType of the secret
GetSecretSize(secretName, nodeType, ok) ==
    SizeOfSecret(GetSecret(secretName, ok), nodeType)

FirstLineOfSecret(s) ==
    IF s.err # "nil" THEN [err |-> "error", body |-> <<>>]
    ELSE [err |-> "nil", body |-> GetFirstLine(s.body)]

\* GetSecretFirstLine: the first-line view of the decrypted secret
GetSecretFirstLine(secretName, ok) == FirstLineOfSecret(GetSecret(secretName, ok))

(***************************************************************************)
(* package fs: the tree builder.  fs is the part of passFS the build       *)
(* writes: [inodes, allocatableInode, allocLog].                           *)
(***************************************************************************)
NextAllocatableSame(n) == n

\* fs.allocatableInode++
NextAllocatable(n) == n + 1

\* allocateInode: the lock is taken and released inside; the build is the
\* only caller and runs alone
allocateInode(fs) ==
    [inode |-> fs.allocatableInode,
     fs    |-> [fs EXCEPT !.allocatableInode = NextAllocatable(@),
                          !.allocLog = Append(@, fs.allocatableInode)]]

\* fs.inodes[id] = info
PutInode(m, id, info) ==
    [k \in DOMAIN m \cup {id} |-> IF k = id THEN info ELSE m[k]]

getSecretBaseName(node) == Last(Split(node.Secret, "/"))

FileInfo(node, nodeType) ==
    [attributes |-> [Nlink |-> 1, Mode |-> "filePermission", Size |-> 0],
     dir |-> FALSE, children |-> <<>>, secret |-> node.Secret, inodeType |-> nodeType]

DirInfo(secret, children) ==
    [attributes |-> [Nlink |-> 1, Mode |-> "dirPermission|ModeDir", Size |-> 0],
     dir |-> TRUE, children |-> children, secret |-> secret, inodeType |-> Contents]

\* getDirEnt once allocateInode has returned a
FileEntOf(a, node, offset, nodeType) ==
    [ent |-> [Offset |-> offset, Inode |-> a.inode,
              Name |-> Replace1(getSecretBaseName(node), secretFileSuffix,
                                suffixMap(nodeType)),
              Type |-> DT_File],
     fs  |-> [a.fs EXCEPT !.inodes = PutInode(@, a.inode, FileInfo(node, nodeType))]]

getDirEnt(fs, node, offset, nodeType) ==
    FileEntOf(allocateInode(fs), node, offset, nodeType)

\* if fs.options.ContentFiles
ContentFilesEnabled == options.ContentFiles

FirstLineFilesAlways == TRUE

\* if fs.options.FirstLineFiles
FirstLineFilesEnabled == options.FirstLineFiles

\* entries = append(entries, dirEnt); offsetStart++
AppendEnt(acc, r) ==
    [fs |-> r.fs, ents |-> Append(acc.ents, r.ent), offsetStart |-> acc.offsetStart + 1]

AddContents(acc, node) ==
    IF ContentFilesEnabled
    THEN AppendEnt(acc, getDirEnt(acc.fs, node, acc.offsetStart, Contents))
    ELSE acc

AddFirstLine(acc, node) ==
    IF FirstLineFilesEnabled
    THEN AppendEnt(acc, getDirEnt(acc.fs, node, acc.offsetStart, FirstLine))
    ELSE acc

\* locateChildren of a leaf: one entry per enabled projection
locateLeaf(fs, node, offset) ==
    AddFirstLine(AddContents([fs |-> fs, ents |-> <<>>, offsetStart |-> offset], node),
                 node)

NextIndexByOne(index, children) == index + 1

\* index += len(children): a child may contribute zero, one or two entries
NextIndex(index, children) == index + Len(children)

DirEntOfAsFile(a, l, node, offset) ==
    [ents |-> << [Offset |-> offset, Inode |-> a.inode,
                  Name |-> getSecretBaseName(node), Type |-> DT_File] >>,
     fs   |-> [a.fs EXCEPT !.inodes =
                    PutInode(@, a.inode, DirInfo(node.Secret, l.ents))]]

\* locateChildren of a directory once its children are located (l) and
\* allocateInode has returned a
DirEntOf(a, l, node, offset) ==
    [ents |-> << [Offset |-> offset, Inode |-> a.inode,
                  Name |-> getSecretBaseName(node), Type |-> DT_Directory] >>,
     fs   |-> [a.fs EXCEPT !.inodes =
                    PutInode(@, a.inode, DirInfo(node.Secret, l.ents))]]

DirOf(l, node, offset) == DirEntOf(allocateInode(l.fs), l, node, offset)

RECURSIVE locateChildren(_, _, _)
RECURSIVE locateLoop(_, _, _, _, _)
RECURSIVE locateStep(_, _, _, _, _)
\* one turn of the loop, r being what locateChildren returned for children[i]
locateStep(r, children, i, index, acc) ==
    locateLoop(r.fs, children, i + 1, NextIndex(index, r.ents), acc \o r.ents)

\* the loop over node.Children, as locateChildren and NewPassFS both run it
locateLoop(fs, children, i, index, acc) ==
    IF i > Len(children) THEN [fs |-> fs, ents |-> acc]
    ELSE locateStep(locateChildren(fs, children[i], index), children, i, index, acc)

locateChildren(fs, node, offset) ==
    IF node.IsLeaf THEN locateLeaf(fs, node, offset)
    ELSE DirOf(locateLoop(fs, node.Children, 1, 1, <<>>), node, offset)

\* main before NewPassFS is called; i, index and children are the locals of
\* the loop of NewPassFS over rootNode.Children
MainStart == [pc |-> "start", i |-> 1, index |-> 1, children |-> <<>>]

EmptyMap == [k \in {} |-> 0]

\* the end of NewPassFS: the root record is stored and the server returned
Install(l) ==
    /\ inodes' = PutInode(l.fs.inodes, RootInodeID, DirInfo(<<>>, l.ents))
    /\ allocatableInode' = l.fs.allocatableInode
    /\ allocLog' = l.fs.allocLog
    /\ decryptCalls' = [id \in DOMAIN l.fs.inodes \cup {RootInodeID} |-> 0]
    /\ decryptOk' = [id \in DOMAIN l.fs.inodes \cup {RootInodeID} |-> 0]

\* NewPassFS: builds every inode record, the root last, then returns the server
NewPassFS ==
    /\ ~mounted
    /\ main.pc = "start"
    /\ main' = [main EXCEPT !.pc = "serving"]
    /\ Install(locateLoop([inodes |-> inodes, allocatableInode |-> allocatableInode,
                           allocLog |-> allocLog],
                          rootNode.Children, 1, 1, <<>>))
    /\ mounted' = TRUE
    /\ UNCHANGED <<options, Prefix, disk, unreadable, rootNode, store, call, sizeMap, mutex,
                   pc, req, result, rd, rf>>

(***************************************************************************)
(* main and NewPassFS step by step: the tree is read, the inode records    *)
(* are inserted child by child, the root record last, and only then is the *)
(* server mounted.                                                         *)
(***************************************************************************)
GetPassTreeFailedIgnored == FALSE

\* rootNode, err := pass.GetPassTree(path, prefix); if err != nil
GetPassTreeFailed == GetPassTreeErr(disk, Prefix, unreadable)

\* NewPassFS calls GetPassTree: on an error it returns nil and the error,
\* else it goes on to the loop over the children of the root
NewPassFSTree ==
    /\ main.pc = "start"
    /\ IF GetPassTreeFailed
       THEN /\ main' = [main EXCEPT !.pc = "failed"]
            /\ rootNode' = NoNode
       ELSE /\ main' = [main EXCEPT !.pc = "build"]
            /\ rootNode' = GetPassTreeAt(disk, Prefix)
    /\ UNCHANGED <<options, Prefix, disk, unreadable, store, call, mounted, inodes,
                   allocatableInode, sizeMap, mutex, allocLog, decryptCalls, decryptOk,
                   pc, req, result, rd, rf>>

\* main: NewPassFS returned an error; os.Exit(1)
MainExit ==
    /\ main.pc = "failed"
    /\ main' = [main EXCEPT !.pc = "exited"]
    /\ UNCHANGED <<options, Prefix, disk, unreadable, rootNode, store, call, mounted, inodes,
                   allocatableInode, sizeMap, mutex, allocLog, decryptCalls, decryptOk,
                   pc, req, result, rd, rf>>

\* one turn of the loop of NewPassFS, r being what locateChildren returned
\* for the child at main.i
LocatedChild(r) ==
    /\ inodes' = r.fs.inodes
    /\ allocatableInode' = r.fs.allocatableInode
    /\ allocLog' = r.fs.allocLog
    /\ main' = [main EXCEPT !.i = @ + 1,
                            !.index = NextIndex(@, r.ents),
                            !.children = @ \o r.ents]

NewPassFSChild ==
    /\ main.pc = "build"
    /\ main.i <= Len(rootNode.Children)
    /\ LocatedChild(locateChildren([inodes |-> inodes,
                                    allocatableInode |-> allocatableInode,
                                    allocLog |-> allocLog],
                                   rootNode.Children[main.i], main.index))
    /\ UNCHANGED <<options, Prefix, disk, unreadable, rootNode, store, call, mounted,
                   sizeMap, mutex, decryptCalls, decryptOk, pc, req, result, rd, rf>>

\* the loop is over: the root record is stored and NewPassFS returns the server
NewPassFSRoot ==
    /\ main.pc = "build"
    /\ main.i > Len(rootNode.Children)
    /\ Install([fs |-> [inodes |-> inodes, allocatableInode |-> allocatableInode,
                        allocLog |-> allocLog],
                ents |-> main.children])
    /\ main' = [MainStart EXCEPT !.pc = "mount"]
    /\ UNCHANGED <<options, Prefix, disk, unreadable, rootNode, store, call, mounted,
                   sizeMap, mutex, pc, req, result, rd, rf>>

\* main: fuse.Mount(mountPath, server, cfg); the handlers are served from
\* here on, or main exits when the mount fails
Mount ==
    /\ main.pc = "mount"
    /\ \E ok \in BOOLEAN :
        IF ok THEN mounted' = TRUE /\ main' = [main EXCEPT !.pc = "serving"]
        ELSE mounted' = FALSE /\ main' = [main EXCEPT !.pc = "exited"]
    /\ UNCHANGED <<options, Prefix, disk, unreadable, rootNode, store, call, inodes,
                   allocatableInode, sizeMap, mutex, allocLog, decryptCalls, decryptOk,
                   pc, req, result, rd, rf>>

(***************************************************************************)
(* package fs: the operation handlers.                                     *)
(***************************************************************************)
NoReq == [op |-> "none", id |-> 0]

NoResult == [op |-> "none", err |-> "nil", inode |-> 0, size |-> 0, data |-> <<>>]

\* no handler other than LookUpInode called since the last lookup
NoCall ==
    [op |-> "none", id |-> 0, offset |-> 0, n |-> 0, err |-> "nil",
     size |-> 0, data |-> <<>>, entries |-> <<>>, pass |-> "none"]

Reply(op, err, inode, size, data) ==
    [op |-> op, err |-> err, inode |-> inode, size |-> size, data |-> data]

findChildInodeAny(name, children) ==
    IF Len(children) > 0 THEN children[1].Inode ELSE 0

\* findChildInode: linear scan by display name; 0 stands for ENOENT
findChildInode(name, children) ==
    IF \E i \in 1..Len(children) : children[i].Name = name
    THEN children[CHOOSE i \in 1..Len(children) :
                    /\ children[i].Name = name
                    /\ \A j \in 1..(i - 1) : children[j].Name # name].Inode
    ELSE 0

\* every display name some directory of the mount holds
EntryNames ==
    UNION { { inodes[d].children[i].Name : i \in 1..Len(inodes[d].children) } :
                d \in DOMAIN inodes }

\* the child LookUpInode resolves, 0 for ENOENT (unknown parent or name)
LookUpChild(parent, name) ==
    IF parent \in DOMAIN inodes THEN findChildInode(name, inodes[parent].children)
    ELSE 0

RECURSIVE SumOver(_, _)
SumOver(f, ids) ==
    IF ids = {} THEN 0
    ELSE f[CHOOSE id \in ids : TRUE] + SumOver(f, ids \ {CHOOSE id \in ids : TRUE})

\* decryptions started so far plus the lookups on their way to getSize's check
CallsUnderWay ==
    SumOver(decryptCalls, DOMAIN decryptCalls)
        + Cardinality({u \in Threads : pc[u] \in {"lock", "check"}})

\* LookUpInode from its start to the call of getSize(childInode); the model
\* stops issuing lookups of uncached inodes after MaxCalls of them
LookUpCall(t, childInode) ==
    IF childInode = 0
    THEN /\ result' = [result EXCEPT ![t] = Reply("LookUpInode", "ENOENT", 0, 0, <<>>)]
         /\ UNCHANGED <<pc, req>>
    ELSE /\ \/ childInode \in DOMAIN sizeMap
            \/ CallsUnderWay < MaxCalls
         /\ pc' = [pc EXCEPT ![t] = "lock"]
         /\ req' = [req EXCEPT ![t] = [op |-> "LookUpInode", id |-> childInode]]
         /\ result' = [result EXCEPT ![t] = NoResult]

LookUpInode(t, parent, name) ==
    /\ mounted
    /\ pc[t] = "idle"
    /\ LookUpCall(t, LookUpChild(parent, name))
    /\ call' = NoCall
    /\ UNCHANGED <<options, Prefix, disk, unreadable, main, rootNode, store, mounted, inodes, allocatableInode, sizeMap,
                   mutex, allocLog, decryptCalls, decryptOk, rd, rf>>

LockNoWait(t) == mutex' = t

\* fs.mutex.Lock(): blocks while another thread holds the mutex
Lock(t) ==
    /\ mutex = NoThread
    /\ mutex' = t

\* getSize: fs.mutex.Lock()
getSizeLock(t) ==
    /\ pc[t] = "lock"
    /\ Lock(t)
    /\ pc' = [pc EXCEPT ![t] = "check"]
    /\ UNCHANGED <<options, Prefix, disk, unreadable, main, rootNode, store, call, mounted, inodes, allocatableInode, sizeMap,
                   allocLog, decryptCalls, decryptOk, req, result, rd, rf>>

CacheHitNever(id) == FALSE

\* size, exists := fs.sizeMap[id]
CacheHit(id) == id \in DOMAIN sizeMap

LookUpReplySwallowed(id, err, size) == Reply("LookUpInode", "nil", id, size, <<>>)

\* LookUpInode after getSize returned: the reply of the whole handler
LookUpReply(id, err, size) ==
    IF err # "nil" THEN Reply("LookUpInode", err, 0, 0, <<>>)
    ELSE Reply("LookUpInode", "nil", id, size, <<>>)

getSizeReturnHoldsOnError(t, id, err, size) ==
    /\ result' = [result EXCEPT ![t] = LookUpReply(id, err, size)]
    /\ pc' = [pc EXCEPT ![t] = "idle"]
    /\ req' = [req EXCEPT ![t] = NoReq]
    /\ mutex' = IF err # "nil" THEN mutex ELSE NoThread

\* getSize returns to LookUpInode, which replies; the deferred Unlock runs
getSizeReturn(t, id, err, size) ==
    /\ result' = [result EXCEPT ![t] = LookUpReply(id, err, size)]
    /\ pc' = [pc EXCEPT ![t] = "idle"]
    /\ req' = [req EXCEPT ![t] = NoReq]
    /\ mutex' = NoThread

\* getSize under the lock: a cache hit and an unknown inode return; a miss
\* goes on to GetSecretSize with the lock held
getSizeChecked(t, id) ==
    IF CacheHit(id)
    THEN getSizeReturn(t, id, "nil", sizeMap[id]) /\ UNCHANGED decryptCalls
    ELSE IF id \notin DOMAIN inodes
    THEN getSizeReturn(t, id, "error", 0) /\ UNCHANGED decryptCalls
    ELSE /\ pc' = [pc EXCEPT ![t] = "decrypt"]
         /\ decryptCalls' = [decryptCalls EXCEPT ![id] = @ + 1]
         /\ UNCHANGED <<result, mutex, req>>

getSizeCheck(t) ==
    /\ pc[t] = "check"
    /\ getSizeChecked(t, req[t].id)
    /\ UNCHANGED <<options, Prefix, disk, unreadable, main, rootNode, store, call, mounted, inodes, allocatableInode, sizeMap,
                   allocLog, decryptOk, rd, rf>>

StoreSizeFresh(m, id, size) == [k \in {id} |-> size]

\* fs.sizeMap[id] = size
StoreSize(m, id, size) ==
    [k \in DOMAIN m \cup {id} |-> IF k = id THEN size ELSE m[k]]

\* getSize once GetSecretSize has returned r: the size is stored on success
getSizeDecrypted(t, id, r) ==
    /\ IF r.err # "nil"
       THEN UNCHANGED <<sizeMap, decryptOk>>
       ELSE /\ sizeMap' = StoreSize(sizeMap, id, r.size)
            /\ decryptOk' = [decryptOk EXCEPT ![id] = @ + 1]
    /\ getSizeReturn(t, id, IF r.err # "nil" THEN "error" ELSE "nil", r.size)

getSizeDecrypt(t) ==
    /\ pc[t] = "decrypt"
    /\ \E ok \in BOOLEAN :
        getSizeDecrypted(t, req[t].id,
                         GetSecretSize(inodes[req[t].id].secret,
                                       inodes[req[t].id].inodeType, ok))
    /\ UNCHANGED <<options, Prefix, disk, unreadable, main, rootNode, store, call, mounted, inodes, allocatableInode,
                   allocLog, decryptCalls, rd, rf>>

\* allocateInode called on the server by a thread, step by step (the build
\* is its only caller in the program): fs.mutex.Lock(); the model stops after
\* MaxAllocs calls
allocateInodeLock(t) ==
    /\ mounted
    /\ pc[t] = "idle"
    /\ Len(allocLog) + Cardinality({u \in Threads : pc[u] \in {"alloc_read", "alloc_incr"}})
            < Cardinality(DOMAIN inodes) - 1 + MaxAllocs
    /\ Lock(t)
    /\ pc' = [pc EXCEPT ![t] = "alloc_read"]
    /\ UNCHANGED <<options, Prefix, disk, unreadable, main, rootNode, store, call, mounted, inodes,
                   allocatableInode, sizeMap, allocLog, decryptCalls, decryptOk, req,
                   result, rd, rf>>

\* allocatedInode := fs.allocatableInode
allocateInodeRead(t) ==
    /\ pc[t] = "alloc_read"
    /\ req' = [req EXCEPT ![t] = [op |-> "allocateInode", id |-> allocatableInode]]
    /\ pc' = [pc EXCEPT ![t] = "alloc_incr"]
    /\ UNCHANGED <<options, Prefix, disk, unreadable, main, rootNode, store, call, mounted, inodes,
                   allocatableInode, sizeMap, mutex, allocLog, decryptCalls, decryptOk,
                   result, rd, rf>>

\* fs.allocatableInode++; return allocatedInode; the deferred Unlock runs
allocateInodeReturn(t) ==
    /\ pc[t] = "alloc_incr"
    /\ allocatableInode' = NextAllocatable(allocatableInode)
    /\ allocLog' = Append(allocLog, req[t].id)
    /\ result' = [result EXCEPT ![t] = Reply("allocateInode", "nil", req[t].id, 0, <<>>)]
    /\ pc' = [pc EXCEPT ![t] = "idle"]
    /\ req' = [req EXCEPT ![t] = NoReq]
    /\ mutex' = NoThread
    /\ UNCHANGED <<options, Prefix, disk, unreadable, main, rootNode, store, call, mounted, inodes,
                   sizeMap, decryptCalls, decryptOk, rd, rf>>

Min(a, b) == IF a < b THEN a ELSE b

ReadAtFromOne(s, n, off) ==
    IF off >= Len(s) THEN <<>> ELSE SubSeq(s, off + 2, Min(off + n + 1, Len(s)))

\* strings.Reader.ReadAt into a buffer of n bytes at offset off (io.EOF dropped)
ReadAt(s, n, off) ==
    IF off >= Len(s) THEN <<>> ELSE SubSeq(s, off + 1, Min(off + n, Len(s)))

\* the switch of ReadFile on inode.inodeType
SecretContent(inode, ok) ==
    IF inode.inodeType = Contents THEN GetSecret(inode.secret, ok)
    ELSE GetSecretFirstLine(inode.secret, ok)

ReadContentKeepsEOF(c, offset, n) ==
    IF c.err # "nil" THEN [err |-> "error", data |-> <<>>]
    ELSE [err  |-> IF offset + n > Len(c.body) THEN "EOF" ELSE "nil",
          data |-> ReadAt(c.body, n, offset)]

\* ReadFile once the content c is fetched
ReadContent(c, offset, n) ==
    IF c.err # "nil" THEN [err |-> "error", data |-> <<>>]
    ELSE [err |-> "nil", data |-> ReadAt(c.body, n, offset)]

\* ReadFile as a function of the request: [err, data]
ReadFileOp(id, offset, n, ok) ==
    IF id \notin DOMAIN inodes THEN [err |-> "error", data |-> <<>>]
    ELSE ReadContent(SecretContent(inodes[id], ok), offset, n)

\* the bytes fuseutil.WriteDirent writes for one entry
DirentLen(name) ==
    DirentHeader + Len(name)
        + ((DirentAlignment - (Len(name) % DirentAlignment)) % DirentAlignment)

\* fuseutil.WriteDirent: 0 when the entry does not fit the room left
WriteDirent(room, e) == IF DirentLen(e.Name) > room THEN 0 ELSE DirentLen(e.Name)

\* the loop of ReadDir over entries[i..]: the entries written to Dst
RECURSIVE WriteEntries(_, _, _, _)
RECURSIVE WriteEntry(_, _, _, _, _)
WriteEntry(entries, i, room, acc, n) ==
    IF n = 0 THEN acc
    ELSE WriteEntries(entries, i + 1, room - n, Append(acc, entries[i]))

WriteEntries(entries, i, room, acc) ==
    IF i > Len(entries) THEN acc
    ELSE IF entries[i].Offset = 0 THEN WriteEntries(entries, i + 1, room, acc)
    ELSE WriteEntry(entries, i, room, acc, WriteDirent(room, entries[i]))

ResumeIndexSkip(offset) == offset + 2

\* entries = entries[op.Offset:], as the 1-based index of the first entry kept
ResumeIndex(offset) == offset + 1

ReadDirOpUntyped(id, offset, dstLen) ==
    IF id \notin DOMAIN inodes THEN [err |-> "ENOENT", entries |-> <<>>]
    ELSE IF offset > Len(inodes[id].children) THEN [err |-> "EIO", entries |-> <<>>]
    ELSE [err |-> "nil",
          entries |-> WriteEntries(inodes[id].children, ResumeIndex(offset), dstLen, <<>>)]

\* ReadDir as a function of the request: [err, entries]
ReadDirOp(id, offset, dstLen) ==
    IF id \notin DOMAIN inodes THEN [err |-> "ENOENT", entries |-> <<>>]
    ELSE IF ~inodes[id].dir THEN [err |-> "EIO", entries |-> <<>>]
    ELSE IF offset > Len(inodes[id].children) THEN [err |-> "EIO", entries |-> <<>>]
    ELSE [err |-> "nil",
          entries |-> WriteEntries(inodes[id].children, ResumeIndex(offset), dstLen, <<>>)]

\* whether ReadFile ran pass for the inode and how pass ended: every record of
\* the table carries inodeType Contents or FirstLine, so the switch on it
\* reaches GetSecret or GetSecretFirstLine for each of them
ReadFilePass(id, ok) ==
    IF id \notin DOMAIN inodes THEN "none"
    ELSE IF inodes[id].inodeType \in {Contents, FirstLine}
    THEN (IF ok THEN "ok" ELSE "failed")
    ELSE "none"

ReadFileReply(t, id, offset, n, r, ran) ==
    /\ result' = [result EXCEPT ![t] = Reply("ReadFile", r.err, id, Len(r.data), r.data)]
    /\ call' = [NoCall EXCEPT !.op = "ReadFile", !.id = id, !.offset = offset, !.n = n,
                              !.err = r.err, !.size = Len(r.data), !.data = r.data,
                              !.pass = ran]

\* ReadFile served to a request thread
ReadFile(t, id, offset, n) ==
    /\ mounted
    /\ pc[t] = "idle"
    /\ \E ok \in BOOLEAN :
        ReadFileReply(t, id, offset, n, ReadFileOp(id, offset, n, ok), ReadFilePass(id, ok))
    /\ UNCHANGED <<options, Prefix, disk, unreadable, main, rootNode, store, mounted, inodes, allocatableInode, sizeMap,
                   mutex, allocLog, decryptCalls, decryptOk, pc, req, rd, rf>>

ServedAllocating(t, r) ==
    /\ mounted
    /\ pc[t] = "idle"
    /\ result' = [result EXCEPT ![t] = r]
    /\ allocatableInode' = allocatableInode + 1
    /\ UNCHANGED <<options, Prefix, disk, unreadable, main, rootNode, store, mounted, inodes,
                   sizeMap, mutex, allocLog, decryptCalls, decryptOk, pc, req, rd, rf>>

\* the other handlers leave every field of passFS alone and take no lock;
\* the thread's reply is r
Served(t, r) ==
    /\ mounted
    /\ pc[t] = "idle"
    /\ result' = [result EXCEPT ![t] = r]
    /\ UNCHANGED <<options, Prefix, disk, unreadable, main, rootNode, store, mounted, inodes, allocatableInode,
                   sizeMap, mutex, allocLog, decryptCalls, decryptOk, pc, req, rd, rf>>

\* ReadDir served to a request thread
ReadDirReply(t, id, offset, dstLen, r) ==
    /\ Served(t, Reply("ReadDir", r.err, id, 0, <<>>))
    /\ call' = [NoCall EXCEPT !.op = "ReadDir", !.id = id, !.offset = offset,
                              !.n = dstLen, !.err = r.err, !.entries = r.entries]

ReadDir(t, id, offset, dstLen) ==
    ReadDirReply(t, id, offset, dstLen, ReadDirOp(id, offset, dstLen))

\* GetInodeAttributes as a function of the request: the attributes are the
\* record's, as the build stored them; patchAttributes sets times and owner only
GetInodeAttributesOp(id) ==
    IF id \notin DOMAIN inodes THEN [err |-> "ENOENT", size |-> 0]
    ELSE [err |-> "nil", size |-> inodes[id].attributes.Size]

GetInodeAttributesReply(t, id, r) ==
    /\ Served(t, Reply("GetInodeAttributes", r.err, id, r.size, <<>>))
    /\ call' = [NoCall EXCEPT !.op = "GetInodeAttributes", !.id = id,
                              !.err = r.err, !.size = r.size]

GetInodeAttributes(t, id) == GetInodeAttributesReply(t, id, GetInodeAttributesOp(id))

\* StatFS, OpenDir and OpenFile have an empty body: err stays nil
StatFSOp == "nil"

OpenDirChecked(id) ==
    IF id \in DOMAIN inodes /\ inodes[id].dir THEN "nil" ELSE "EIO"

OpenDirOp(id) == "nil"

OpenFileOp(id) == "nil"

StatFS(t) ==
    /\ Served(t, Reply("StatFS", StatFSOp, 0, 0, <<>>))
    /\ call' = [NoCall EXCEPT !.op = "StatFS", !.err = StatFSOp]

OpenDir(t, id) ==
    /\ Served(t, Reply("OpenDir", OpenDirOp(id), id, 0, <<>>))
    /\ call' = [NoCall EXCEPT !.op = "OpenDir", !.id = id, !.err = OpenDirOp(id)]

OpenFile(t, id) ==
    /\ Served(t, Reply("OpenFile", OpenFileOp(id), id, 0, <<>>))
    /\ call' = [NoCall EXCEPT !.op = "OpenFile", !.id = id, !.err = OpenFileOp(id)]

\* every other operation: the method of the embedded
\* fuseutil.NotImplementedFileSystem answers ENOSYS
NotImplemented(t) ==
    /\ Served(t, Reply("NotImplemented", "ENOSYS", 0, 0, <<>>))
    /\ call' = [NoCall EXCEPT !.op = "NotImplemented", !.err = "ENOSYS"]

(***************************************************************************)
(* Clients of the mount: one lists a directory with successive ReadDir     *)
(* calls, one reads a file with successive ReadFile calls.                 *)
(***************************************************************************)
NoList == [active |-> FALSE, inode |-> 0, cursor |-> 0, emitted |-> <<>>,
           returned |-> {}, done |-> FALSE]

NoFile == [active |-> FALSE, inode |-> 0, pos |-> 0, acc |-> <<>>,
           done |-> FALSE, failed |-> FALSE]

\* the longest display name of the model, and the dirent it makes
LongestName == Replace1(FileA, secretFileSuffix, firstLineSuffix)

LargestDirent == DirentLen(LongestName)

\* Dst lengths the kernel may pass: room for one entry of any name at least
DstSizes ==
    { LargestDirent + DirentAlignment * k :
        k \in 0..((ExtraDirents * LargestDirent) \div DirentAlignment) }

\* OpenDir, then the listing starts at offset 0
ListOpen(id) ==
    /\ mounted
    /\ id \in DOMAIN inodes
    /\ inodes[id].dir
    /\ rd' = [active |-> TRUE, inode |-> id, cursor |-> 0, emitted |-> <<>>,
              returned |-> {[cursor |-> 0, n |-> 0]}, done |-> FALSE]
    /\ UNCHANGED <<options, Prefix, disk, unreadable, main, rootNode, store, call, mounted, inodes, allocatableInode, sizeMap,
                   mutex, allocLog, decryptCalls, decryptOk, pc, req, result, rf>>

\* the client takes the reply r of ReadDir: the next cursor is the offset of
\* the last entry returned, and an empty reply ends the listing
ListTake(r) ==
    IF r.err # "nil" \/ Len(r.entries) = 0
    THEN rd' = [rd EXCEPT !.done = TRUE]
    ELSE rd' = [rd EXCEPT !.emitted = @ \o r.entries,
                          !.cursor = Last(r.entries).Offset,
                          !.returned = @ \cup
                                {[cursor |-> Last(r.entries).Offset,
                                  n |-> Len(rd.emitted) + Len(r.entries)]}]

ListRead(dstLen) ==
    /\ rd.active
    /\ ~rd.done
    /\ ListTake(ReadDirOp(rd.inode, rd.cursor, dstLen))
    /\ UNCHANGED <<options, Prefix, disk, unreadable, main, rootNode, store, call, mounted, inodes, allocatableInode, sizeMap,
                   mutex, allocLog, decryptCalls, decryptOk, pc, req, result, rf>>

\* the client seeks back to a cursor an earlier ReadDir returned
ListRewind(c) ==
    /\ rd.active
    /\ c \in rd.returned
    /\ c.n < Len(rd.emitted)
    /\ rd' = [rd EXCEPT !.cursor = c.cursor, !.emitted = SubSeq(@, 1, c.n),
                        !.done = FALSE]
    /\ UNCHANGED <<options, Prefix, disk, unreadable, main, rootNode, store, call, mounted, inodes, allocatableInode, sizeMap,
                   mutex, allocLog, decryptCalls, decryptOk, pc, req, result, rf>>

\* OpenFile, then the read starts at offset 0
FileOpen(id) ==
    /\ mounted
    /\ id \in DOMAIN inodes
    /\ ~inodes[id].dir
    /\ rf' = [active |-> TRUE, inode |-> id, pos |-> 0, acc |-> <<>>,
              done |-> FALSE, failed |-> FALSE]
    /\ UNCHANGED <<options, Prefix, disk, unreadable, main, rootNode, store, call, mounted, inodes, allocatableInode, sizeMap,
                   mutex, allocLog, decryptCalls, decryptOk, pc, req, result, rd>>

\* the client takes the reply r of ReadFile for n bytes: a short read ends the file
FileTake(r, n) ==
    IF r.err # "nil"
    THEN rf' = [rf EXCEPT !.failed = TRUE]
    ELSE rf' = [rf EXCEPT !.acc = @ \o r.data,
                          !.pos = @ + Len(r.data),
                          !.done = Len(r.data) < n]

FileRead(n) ==
    /\ rf.active
    /\ ~rf.done
    /\ \E ok \in BOOLEAN : FileTake(ReadFileOp(rf.inode, rf.pos, n, ok), n)
    /\ UNCHANGED <<options, Prefix, disk, unreadable, main, rootNode, store, call, mounted, inodes, allocatableInode, sizeMap,
                   mutex, allocLog, decryptCalls, decryptOk, pc, req, result, rd>>

(***************************************************************************)
(* Initial states and specifications.                                      *)
(***************************************************************************)
AllOptions == [ContentFiles : BOOLEAN, FirstLineFiles : BOOLEAN]

\* every body of at most n bytes over a letter and the newline
RECURSIVE BodiesUpTo(_)
BodiesUpTo(n) ==
    IF n = 0 THEN {<<>>}
    ELSE { b \in UNION { {c, Append(c, "s"), Append(c, "\n")} : c \in BodiesUpTo(n - 1) } :
             TRUE }

\* "secret123\nuser@x.com\n"
ExampleBody ==
    <<"s", "e", "c", "r", "e", "t", "1", "2", "3", "\n",
      "u", "s", "e", "r", "@", "x", ".", "c", "o", "m", "\n">>

\* the process before NewPassFS runs, for the options given
InitState(opts) ==
    /\ main = MainStart
    /\ call = NoCall
    /\ options \in opts
    /\ mounted = FALSE
    /\ inodes = EmptyMap
    /\ allocatableInode = RootInodeID + 1
    /\ sizeMap = EmptyMap
    /\ mutex = NoThread
    /\ allocLog = <<>>
    /\ decryptCalls = EmptyMap
    /\ decryptOk = EmptyMap
    /\ pc = [t \in Threads |-> "idle"]
    /\ req = [t \in Threads |-> NoReq]
    /\ result = [t \in Threads |-> NoResult]
    /\ rd = NoList
    /\ rf = NoFile

\* ... the tree being read already: with every body of bodies for its secrets
InitFrom(opts, bodies) ==
    /\ store \in [StoreNames(rootNode) -> bodies]
    /\ InitState(opts)

\* ... for each tree given, the store on disk holding just that tree
InitWith(trees, opts, bodies) ==
    /\ rootNode \in trees
    /\ Prefix = <<>>
    /\ disk = DiskOf(rootNode.Children)
    /\ unreadable = {}
    /\ InitFrom(opts, bodies)

\* a store with one secret and one (empty) directory at the top
ServeTree == DirNode(<<>>, <<Leaf(FileA), DirNode(DirD, <<>>)>>)

ServeBodies == {<<"s", "\n", "s">>}

MissingName == <<"x">>

\* Serving: request threads run the handlers concurrently
Init == InitWith({ServeTree}, AllOptions, ServeBodies)

Next ==
    \/ NewPassFS
    \/ \E t \in Threads, parent \in DOMAIN inodes \cup {allocatableInode},
          name \in EntryNames \cup {MissingName} : LookUpInode(t, parent, name)
    \/ \E t \in Threads : getSizeLock(t)
    \/ \E t \in Threads : getSizeCheck(t)
    \/ \E t \in Threads : getSizeDecrypt(t)

Spec == Init /\ [][Next]_vars

\* Serving under fair scheduling: a thread waiting in Lock gets the mutex
\* when it is released again and again (sync.Mutex hands the lock to a
\* starving waiter), a thread holding it goes on, and a decryption returns
Fairness ==
    \A t \in Threads :
        /\ SF_vars(getSizeLock(t))
        /\ WF_vars(getSizeCheck(t))
        /\ WF_vars(getSizeDecrypt(t))

SpecLive == Init /\ [][Next]_vars /\ Fairness

\* Building and listing: every tree and every setting of the options
InitBuild == InitWith(Trees(MaxDepth), AllOptions, {<<"s">>})

NextBuild ==
    \/ NewPassFS
    \/ \E id \in DOMAIN inodes : ListOpen(id)
    \/ \E dstLen \in DstSizes : ListRead(dstLen)
    \/ \E c \in rd.returned : ListRewind(c)

SpecBuild == InitBuild /\ [][NextBuild]_vars

\* Reading: one secret of every body, looked up and read by one client
ReadTree == DirNode(<<>>, <<Leaf(FileA)>>)

InitRead == InitWith({ReadTree}, AllOptions, BodiesUpTo(MaxBody) \cup {ExampleBody})

NextRead ==
    \/ NewPassFS
    \/ \E name \in EntryNames : LookUpInode(1, RootInodeID, name)
    \/ getSizeLock(1)
    \/ getSizeCheck(1)
    \/ getSizeDecrypt(1)
    \/ \E id \in DOMAIN inodes : FileOpen(id)
    \/ \E n \in 1..MaxDst : FileRead(n)

SpecRead == InitRead /\ [][NextRead]_vars

\* Every handler called by one request thread, with ids of each kind and
\* ids the table does not hold
OpsIds == DOMAIN inodes \cup {allocatableInode}

NextOps ==
    \/ NewPassFS
    \/ \E parent \in OpsIds, name \in EntryNames \cup {MissingName} :
            LookUpInode(1, parent, name)
    \/ getSizeLock(1)
    \/ getSizeCheck(1)
    \/ getSizeDecrypt(1)
    \/ \E id \in OpsIds, offset \in 0..(MaxBody + 1), n \in {1, MaxDst} :
            ReadFile(1, id, offset, n)
    \/ \E id \in OpsIds, offset \in 0..MaxDst, dstLen \in {LargestDirent, (1 + ExtraDirents) * LargestDirent} :
            ReadDir(1, id, offset, dstLen)
    \/ \E id \in OpsIds : GetInodeAttributes(1, id)
    \/ StatFS(1)
    \/ \E id \in OpsIds : OpenDir(1, id)
    \/ \E id \in OpsIds : OpenFile(1, id)

SpecOps == Init /\ [][NextOps]_vars

\* Every handler, called by a second request thread while the first is in a
\* lookup: the handlers interleave with the steps of getSize
NextServe ==
    \/ NewPassFS
    \/ \E parent \in OpsIds, name \in EntryNames \cup {MissingName} :
            LookUpInode(1, parent, name)
    \/ getSizeLock(1)
    \/ getSizeCheck(1)
    \/ getSizeDecrypt(1)
    \/ \E id \in OpsIds : ReadFile(2, id, 0, MaxDst)
    \/ \E id \in OpsIds : ReadDir(2, id, 0, (1 + ExtraDirents) * LargestDirent)
    \/ \E id \in OpsIds : GetInodeAttributes(2, id)
    \/ StatFS(2)
    \/ \E id \in OpsIds : OpenDir(2, id)
    \/ \E id \in OpsIds : OpenFile(2, id)
    \/ NotImplemented(2)

SpecServe == Init /\ [][NextServe]_vars

\* The lock: threads in getSize and in allocateInode at once
NextLock ==
    \/ NewPassFS
    \/ \E t \in Threads, name \in EntryNames : LookUpInode(t, RootInodeID, name)
    \/ \E t \in Threads : getSizeLock(t)
    \/ \E t \in Threads : getSizeCheck(t)
    \/ \E t \in Threads : getSizeDecrypt(t)
    \/ \E t \in Threads : allocateInodeLock(t)
    \/ \E t \in Threads : allocateInodeRead(t)
    \/ \E t \in Threads : allocateInodeReturn(t)

SpecLock == Init /\ [][NextLock]_vars

\* Stores with dot-prefixed entries and secrets named like files: the tree
\* is what GetPassTree makes of the disk
InitStore ==
    /\ disk \in Disks
    /\ Prefix = <<>>
    /\ unreadable = {}
    /\ rootNode = GetPassTree(disk)
    /\ InitFrom(AllOptions, {<<"s">>})

\* the names a dot-prefixed entry could surface under
HiddenNames ==
    {HiddenDir, HiddenFile,
     Replace1(HiddenFile, secretFileSuffix, secretContentsSuffix),
     Replace1(HiddenFile, secretFileSuffix, firstLineSuffix)}

NextStore ==
    \/ NewPassFS
    \/ \E id \in DOMAIN inodes : ListOpen(id)
    \/ \E dstLen \in DstSizes : ListRead(dstLen)
    \/ \E parent \in DOMAIN inodes, name \in HiddenNames : LookUpInode(1, parent, name)

SpecStore == InitStore /\ [][NextStore]_vars

\* Mounting: main from its start, over stores with a file that is no .gpg
\* file, a directory beside a secret of its name, nested and dot-prefixed
\* directories, for several prefixes and with a directory that cannot be read
MountDisks ==
    { <<>>,
      <<File(FileA), File(<<"n">>)>>,
      <<File(FileA), Dir(DirD, <<File(FileA)>>)>>,
      <<Dir(DirD, <<File(FileA), Dir(DirD, <<File(FileB)>>)>>), File(<<"n">>)>>,
      <<Dir(DirD, <<File(FileA)>>), File(DirD \o secretSuffix)>>,
      <<Dir(HiddenDir, <<File(FileA)>>), File(FileA), Dir(DirD, <<File(HiddenFile)>>)>> }

Prefixes == {<<>>, <<"a">>, DirD, <<"d", "/", "a">>}

Unreadables == {{}} \cup { {p} : p \in {<<>>, DirD, <<"d", "/", "d">>, HiddenDir} }

InitMount ==
    /\ disk \in MountDisks
    /\ Prefix \in Prefixes
    /\ unreadable \in Unreadables
    /\ rootNode = NoNode
    /\ store \in [StoreNames(GetPassTreeAt(disk, Prefix)) -> {<<"s">>}]
    /\ InitState(AllOptions)

NextMount ==
    \/ NewPassFSTree
    \/ MainExit
    \/ NewPassFSChild
    \/ NewPassFSRoot
    \/ Mount
    \/ \E name \in EntryNames : LookUpInode(1, RootInodeID, name)
    \/ getSizeLock(1)
    \/ getSizeCheck(1)
    \/ getSizeDecrypt(1)
    \/ \E id \in DOMAIN inodes : ReadDir(1, id, 0, (1 + ExtraDirents) * LargestDirent)

SpecMount == InitMount /\ [][NextMount]_vars

(***************************************************************************)
(* Properties: the size cache under concurrent lookups (Spec).             *)
(***************************************************************************)
Succeeded(r, id) == r.op = "LookUpInode" /\ r.err = "nil" /\ r.inode = id

InFlight(id) == Cardinality({t \in Threads : pc[t] = "decrypt" /\ req[t].id = id})

\* C1 as claimed: getSize invokes the decryption collaborator at most once
\* per inode id over the mount's lifetime.
C1_AtMostOneDecryption ==
    \A id \in DOMAIN decryptCalls : decryptCalls[id] <= 1

\* C1 as amended: per inode id at most one decryption by getSize succeeds,
\* and none is started once one has succeeded or while one is in flight; only
\* a failed decryption (which stores nothing) is followed by another.
C1_AtMostOneSuccessfulDecryption ==
    \A id \in DOMAIN decryptCalls :
        /\ decryptOk[id] + InFlight(id) <= 1
        /\ id \in DOMAIN sizeMap <=> decryptOk[id] = 1
        /\ decryptCalls[id] >= decryptOk[id] + InFlight(id)

\* every thread raced for the same uncached id, and one decryption served all
C1_Witness ==
    \E id \in DOMAIN decryptCalls :
        /\ decryptCalls[id] = 1
        /\ decryptOk[id] = 1
        /\ \A t \in Threads : Succeeded(result[t], id)

\* C2 as claimed: the lock of the size cache is never held while the
\* decryption collaborator runs, so a getSize for another inode can take it.
C2_LockFreeDuringDecryption ==
    /\ \A t \in Threads : pc[t] = "decrypt" => mutex # t
    /\ \A t1, t2 \in Threads :
          (pc[t1] = "decrypt" /\ pc[t2] = "lock" /\ req[t1].id # req[t2].id)
              => ENABLED getSizeLock(t2)

\* C3: a stored size is never changed or removed, no decryption for its id is
\* started again, and a getSize that finds it returns it unchanged.
C3_CachedSizeIsStable ==
    [][\A id \in DOMAIN sizeMap :
          /\ id \in DOMAIN sizeMap'
          /\ sizeMap'[id] = sizeMap[id]
          /\ decryptCalls'[id] = decryptCalls[id]
          /\ \A t \in Threads :
                (req[t].id = id /\ pc[t] = "check" /\ pc'[t] # "check")
                    => (pc'[t] = "idle" /\ Succeeded(result'[t], id)
                        /\ result'[t].size = sizeMap[id])]_vars

\* two sizes are cached, and a second call got the first from the cache
C3_Witness ==
    \E id \in DOMAIN sizeMap, other \in DOMAIN sizeMap, t \in Threads :
        /\ other # id
        /\ decryptCalls[id] = 1
        /\ decryptCalls[other] >= 1
        /\ Succeeded(result[t], id)
        /\ result[t].size = sizeMap[id]
        /\ pc[t] = "idle"
        /\ \E u \in Threads : u # t /\ Succeeded(result[u], id)

(***************************************************************************)
(* Properties: the tree builder and directory listing (SpecBuild).         *)
(***************************************************************************)
Dirs == {id \in DOMAIN inodes : inodes[id].dir}

\* the projections the options enable, in the order their entries are made
ExpectedKinds ==
    (IF options.ContentFiles THEN <<Contents>> ELSE <<>>)
        \o (IF options.FirstLineFiles THEN <<FirstLine>> ELSE <<>>)

IsFileEntry(e, secret, kind) ==
    /\ e.Type = DT_File
    /\ e.Inode \in DOMAIN inodes
    /\ ~inodes[e.Inode].dir
    /\ inodes[e.Inode].inodeType = kind
    /\ inodes[e.Inode].secret = secret

IsDirEntry(e, secret) ==
    /\ e.Type = DT_Directory
    /\ e.Inode \in DOMAIN inodes
    /\ inodes[e.Inode].dir
    /\ inodes[e.Inode].secret = secret

\* the entries ents[j..] are exactly what the nodes children[i..] contribute
RECURSIVE EntriesMatch(_, _, _, _)
EntriesMatch(children, i, ents, j) ==
    IF i > Len(children) THEN j = Len(ents) + 1
    ELSE IF children[i].IsLeaf
    THEN /\ j + Len(ExpectedKinds) - 1 <= Len(ents)
         /\ \A k \in 1..Len(ExpectedKinds) :
                IsFileEntry(ents[j + k - 1], children[i].Secret, ExpectedKinds[k])
         /\ EntriesMatch(children, i + 1, ents, j + Len(ExpectedKinds))
    ELSE /\ j <= Len(ents)
         /\ IsDirEntry(ents[j], children[i].Secret)
         /\ EntriesMatch(children[i].Children, 1, inodes[ents[j].Inode].children, 1)
         /\ EntriesMatch(children, i + 1, ents, j + 1)

FileInodesOf(secret, kind) ==
    {id \in DOMAIN inodes :
        ~inodes[id].dir /\ inodes[id].secret = secret /\ inodes[id].inodeType = kind}

\* C6: every leaf contributes to its parent directory exactly one entry and
\* one inode per enabled projection, in kind, and none for a disabled one.
C6_LeafEntriesFollowOptions ==
    mounted =>
        /\ EntriesMatch(rootNode.Children, 1, inodes[RootInodeID].children, 1)
        /\ \A n \in Descendants(rootNode) : \A kind \in {Contents, FirstLine} :
              n.IsLeaf =>
                Cardinality(FileInodesOf(n.Secret, kind)) =
                    IF \E k \in 1..Len(ExpectedKinds) : ExpectedKinds[k] = kind
                    THEN 1 ELSE 0

\* mounted with one projection disabled, over a tree with a nested leaf
C6_Witness ==
    /\ mounted
    /\ ~options.ContentFiles
    /\ options.FirstLineFiles
    /\ \E d \in Dirs : d # RootInodeID /\ Len(inodes[d].children) = 2
    /\ Len(inodes[RootInodeID].children) = 2

\* C7: allocateInode hands out strictly increasing ids, never the root id and
\* never one twice, so every record of the table has an id of its own.
C7_InodeIdsIncreaseAndDiffer ==
    /\ \A i \in 1..Len(allocLog) :
          /\ allocLog[i] # RootInodeID
          /\ allocLog[i] < allocatableInode
          /\ \A j \in 1..Len(allocLog) : i < j => allocLog[i] < allocLog[j]
    /\ mounted =>
          /\ DOMAIN inodes = {RootInodeID} \cup {allocLog[i] : i \in 1..Len(allocLog)}
          /\ Cardinality(DOMAIN inodes) = Len(allocLog) + 1

\* a mount whose build allocated several ids, files and directories
C7_Witness ==
    /\ mounted
    /\ Len(allocLog) >= 4
    /\ Cardinality(Dirs) >= 3

\* C8: reading a directory from cursor 0, resuming each time at the offset of
\* the last entry returned (or at any cursor returned before), emits the
\* entries in order with none skipped or repeated, and all of them at the end.
C8_ListingResumesExactly ==
    rd.active =>
        /\ Len(rd.emitted) <= Len(inodes[rd.inode].children)
        /\ rd.emitted = SubSeq(inodes[rd.inode].children, 1, Len(rd.emitted))
        /\ rd.done => rd.emitted = inodes[rd.inode].children

\* a listing of five entries finished in several ReadDir calls
C8_Witness ==
    /\ rd.active
    /\ rd.done
    /\ Len(rd.emitted) = 5
    /\ Cardinality(rd.returned) >= 4

\* C9: in every directory the entry at position i carries offset i.
C9_OffsetsArePositions ==
    \A d \in Dirs : \A i \in 1..Len(inodes[d].children) :
        inodes[d].children[i].Offset = i

\* a directory below the root holding two leaves of two entries each, and a
\* directory after them
C9_Witness ==
    /\ mounted
    /\ options.ContentFiles
    /\ options.FirstLineFiles
    /\ \E d \in Dirs :
          /\ d # RootInodeID
          /\ Len(inodes[d].children) = 5
          /\ inodes[d].children[5].Type = DT_Directory
          /\ inodes[d].children[5].Offset = 5

(***************************************************************************)
(* Properties: sizes and file contents (SpecRead).                         *)
(***************************************************************************)
\* the secret body behind a file inode
BodyOf(id) == store[PassName(inodes[id].secret)]

\* the number of bytes of body before its first newline (all, if it has none)
BeforeNewline(body) ==
    CHOOSE n \in 0..Len(body) :
        /\ \A i \in 1..n : body[i] # "\n"
        /\ n = Len(body) \/ body[n + 1] = "\n"

\* the first line of body with its newline, when body has one
ThroughNewline(body) ==
    IF BeforeNewline(body) = Len(body) THEN Len(body) ELSE BeforeNewline(body) + 1

LookedUp(id) == \E t \in Threads : Succeeded(result[t], id)

ReadToEnd(id) == rf.active /\ rf.done /\ rf.inode = id

\* C4: the size lookup reports for a file inode is the number of bytes
\* readFile serves for it from offset 0 to the end.
C4_SizeEqualsBytesServed ==
    \A t \in Threads : \A id \in DOMAIN inodes :
        (Succeeded(result[t], id) /\ ReadToEnd(id)) => result[t].size = Len(rf.acc)

\* a first-line file of a body with text after the newline, looked up and
\* read to its end
C4_Witness ==
    \E id \in DOMAIN inodes :
        /\ inodes[id].inodeType = FirstLine
        /\ LookedUp(id)
        /\ ReadToEnd(id)
        /\ Len(rf.acc) = 1
        /\ Len(BodyOf(id)) = MaxBody

\* C5 as claimed: the first-line projection keeps the trailing newline of the
\* first line (size 10, "secret123\n" for the example body), the contents
\* projection is the whole body (size 21).
C5_FirstLineKeepsNewline ==
    \A id \in DOMAIN inodes : ~inodes[id].dir =>
        /\ \A t \in Threads : Succeeded(result[t], id) =>
              /\ inodes[id].inodeType = Contents => result[t].size = Len(BodyOf(id))
              /\ inodes[id].inodeType = FirstLine =>
                    /\ result[t].size = ThroughNewline(BodyOf(id))
                    /\ BodyOf(id) = ExampleBody => result[t].size = 10
        /\ (ReadToEnd(id) /\ inodes[id].inodeType = FirstLine) =>
              rf.acc = SubSeq(BodyOf(id), 1, ThroughNewline(BodyOf(id)))

\* C5 as amended: the first-line projection is the first line without its
\* newline (size 9, "secret123" for the example body), the contents
\* projection is the whole body (size 21).
C5_FirstLineDropsNewline ==
    \A id \in DOMAIN inodes : ~inodes[id].dir =>
        /\ \A t \in Threads : Succeeded(result[t], id) =>
              /\ inodes[id].inodeType = Contents =>
                    /\ result[t].size = Len(BodyOf(id))
                    /\ BodyOf(id) = ExampleBody => result[t].size = 21
              /\ inodes[id].inodeType = FirstLine =>
                    /\ result[t].size = BeforeNewline(BodyOf(id))
                    /\ BodyOf(id) = ExampleBody => result[t].size = 9
        /\ (ReadToEnd(id) /\ inodes[id].inodeType = FirstLine) =>
              /\ rf.acc = SubSeq(BodyOf(id), 1, BeforeNewline(BodyOf(id)))
              /\ BodyOf(id) = ExampleBody =>
                    rf.acc = <<"s", "e", "c", "r", "e", "t", "1", "2", "3">>
        /\ (ReadToEnd(id) /\ inodes[id].inodeType = Contents) => rf.acc = BodyOf(id)

\* the example secret: its first-line file looked up and read to the end
C5_Witness ==
    \E id \in DOMAIN inodes :
        /\ inodes[id].inodeType = FirstLine
        /\ ~inodes[id].dir
        /\ BodyOf(id) = ExampleBody
        /\ LookedUp(id)
        /\ ReadToEnd(id)
        /\ Len(rf.acc) = 9

\* the payload of a file inode's projection
PayloadOf(id) ==
    IF inodes[id].inodeType = Contents THEN BodyOf(id)
    ELSE SubSeq(BodyOf(id), 1, BeforeNewline(BodyOf(id)))

\* C10: the bytes readFile returns for contiguous sub-ranges from offset 0,
\* concatenated, are the payload up to the offset reached, and the whole
\* payload once the range is covered.
C10_ChunksConcatenateToPayload ==
    rf.active =>
        /\ rf.pos = Len(rf.acc)
        /\ rf.pos <= Len(PayloadOf(rf.inode))
        /\ rf.acc = SubSeq(PayloadOf(rf.inode), 1, rf.pos)
        /\ rf.done => rf.acc = PayloadOf(rf.inode)

\* the 21 bytes of the example body, read in chunks of at most MaxDst bytes
C10_Witness ==
    /\ rf.active
    /\ rf.done
    /\ inodes[rf.inode].inodeType = Contents
    /\ rf.acc = ExampleBody

(***************************************************************************)
(* Properties: every handler called with ids of each kind (SpecOps).       *)
(***************************************************************************)
\* the last call was op on an inode of the table
Called(op) == call.op = op /\ call.id \in DOMAIN inodes

\* ... on a file inode whose secret pass decrypted
ReadOfFile == Called("ReadFile") /\ ~inodes[call.id].dir /\ call.pass = "ok"

\* C11: readFile at or beyond the end of the payload succeeds with zero
\* bytes, and a read crossing the end succeeds with the bytes up to the end.
C11_ReadPastEndIsEmpty ==
    ReadOfFile =>
        /\ call.offset >= Len(PayloadOf(call.id)) =>
              call.err = "nil" /\ call.data = <<>>
        /\ (call.offset < Len(PayloadOf(call.id))
                /\ call.offset + call.n > Len(PayloadOf(call.id))) =>
              /\ call.err = "nil"
              /\ call.data = SubSeq(PayloadOf(call.id), call.offset + 1,
                                    Len(PayloadOf(call.id)))

\* a read of a non-empty file at an offset beyond its end
C11_Witness ==
    /\ ReadOfFile
    /\ Len(PayloadOf(call.id)) > 0
    /\ call.offset > Len(PayloadOf(call.id))
    /\ call.err = "nil"

\* the display names of the entries of parent
NamesIn(parent) ==
    { inodes[parent].children[i].Name : i \in 1..Len(inodes[parent].children) }

\* lookup(parent, name) has nothing to resolve
Unresolvable(parent, name) ==
    \/ parent \notin DOMAIN inodes
    \/ ~inodes[parent].dir
    \/ name \notin NamesIn(parent)

\* C12: lookup returns NotFound for a parent id missing from the table, for a
\* parent that is a file inode and for a name no entry of the parent carries;
\* such a lookup invokes no decryption and leaves the size cache unchanged.
\* Every such lookup resolves no child (first part), so its step is the step
\* of the lookup of a missing name under a missing parent (second part).
C12_LookupNotFound ==
    /\ [](\A parent \in DOMAIN inodes \cup {allocatableInode},
             name \in EntryNames \cup {MissingName} :
                Unresolvable(parent, name) => LookUpChild(parent, name) = 0)
    /\ [][\A t \in Threads :
            LookUpInode(t, allocatableInode, MissingName) =>
                /\ result'[t] = Reply("LookUpInode", "ENOENT", 0, 0, <<>>)
                /\ pc'[t] = "idle"
                /\ sizeMap' = sizeMap
                /\ decryptCalls' = decryptCalls]_vars

\* a lookup answered NotFound while the size cache holds an entry and the
\* table holds a file inode
C12_Witness ==
    /\ \E t \in Threads : result[t] = Reply("LookUpInode", "ENOENT", 0, 0, <<>>)
    /\ DOMAIN sizeMap # {}
    /\ \E id \in DOMAIN inodes : ~inodes[id].dir

\* C13: readDirectory on a file inode fails with EIO and emits no entry, for
\* every cursor.
C13_ReadDirOfFileFails ==
    (Called("ReadDir") /\ ~inodes[call.id].dir) =>
        call.err = "EIO" /\ call.entries = <<>>

\* a file inode listed from cursor 0, into a buffer with room for an entry
C13_Witness ==
    /\ Called("ReadDir")
    /\ ~inodes[call.id].dir
    /\ call.offset = 0
    /\ call.n >= LargestDirent
    /\ call.err = "EIO"

\* C14: getAttributes on a file inode returns the exact decrypted byte
\* length of its projection, the size lookup reports and caches for it; on
\* an id missing from the table it returns NotFound.
C14_AttributesCarrySize ==
    /\ (call.op = "GetInodeAttributes" /\ call.id \notin DOMAIN inodes) =>
            call.err = "ENOENT"
    /\ (Called("GetInodeAttributes") /\ ~inodes[call.id].dir) =>
            /\ call.err = "nil"
            /\ call.size = Len(PayloadOf(call.id))
            /\ call.id \in DOMAIN sizeMap => call.size = sizeMap[call.id]

\* the errors the kernel sees as an I/O error: EIO itself and any error that
\* is not an errno, which the FUSE library reports as EIO
IOClass == {"EIO", "error"}

\* C15: readFile on a directory inode fails with an I/O-class error, returns
\* no bytes and does not invoke the decryption collaborator.
C15_ReadFileOfDirFails ==
    (Called("ReadFile") /\ inodes[call.id].dir) =>
        /\ call.err \in IOClass
        /\ call.data = <<>>
        /\ call.pass = "none"

\* C16: lookup (for its parent), getAttributes, readDirectory and readFile
\* return NotFound, and no other error, for an id missing from the table.
C16_UnknownIdIsNotFound ==
    [][/\ (call'.op \in {"GetInodeAttributes", "ReadDir", "ReadFile"}
              /\ call'.id \notin DOMAIN inodes) => call'.err = "ENOENT"
       /\ \A t \in Threads, name \in EntryNames \cup {MissingName} :
              LookUpInode(t, allocatableInode, name) => result'[t].err = "ENOENT"]_vars

\* the step of thread t in which GetSecretSize returns a failure to getSize
DecryptionFails(t) ==
    /\ pc[t] = "decrypt"
    /\ getSizeDecrypted(t, req[t].id,
                        GetSecretSize(inodes[req[t].id].secret,
                                      inodes[req[t].id].inodeType, FALSE))

\* C17: when the decryption collaborator fails, lookup and readFile return
\* an error, never a success with size 0 or an empty buffer, and the failed
\* getSize leaves the size cache unchanged.
C17_DecryptionFailurePropagates ==
    [][/\ \A t \in Threads :
              DecryptionFails(t) =>
                  /\ result'[t].op = "LookUpInode"
                  /\ result'[t].err # "nil"
                  /\ sizeMap' = sizeMap
       /\ (call'.op = "ReadFile" /\ call'.pass = "failed") =>
              call'.err # "nil" /\ call'.data = <<>>]_vars

\* a file inode whose lookup failed in decryption (nothing cached for it),
\* then read with pass failing again
C17_Witness ==
    /\ Called("ReadFile")
    /\ ~inodes[call.id].dir
    /\ call.pass = "failed"
    /\ call.err \in IOClass
    /\ decryptCalls[call.id] >= 1
    /\ decryptOk[call.id] = 0
    /\ call.id \notin DOMAIN sizeMap

\* C18: StatFS, openDirectory and openFile succeed for every inode id, also
\* one missing from the table or of the other kind, and leave the inode
\* table, the size cache and the id counter unchanged.
C18_OpenAndStatSucceed ==
    [][call'.op \in {"StatFS", "OpenDir", "OpenFile"} =>
            /\ call'.err = "nil"
            /\ inodes' = inodes
            /\ sizeMap' = sizeMap
            /\ allocatableInode' = allocatableInode]_vars

\* openDirectory called on a file inode while the size cache holds an entry
C18_Witness ==
    /\ Called("OpenDir")
    /\ ~inodes[call.id].dir
    /\ call.err = "nil"
    /\ DOMAIN sizeMap # {}

(***************************************************************************)
(* Properties: what the build makes of the store on disk (SpecStore).      *)
(***************************************************************************)
\* the file entries of the mount: [dir, ent]
FileEntries ==
    { de \in UNION { { [dir |-> d, ent |-> inodes[d].children[i]] :
                            i \in 1..Len(inodes[d].children) } : d \in DOMAIN inodes } :
        de.ent.Type = DT_File }

\* C19: the display name of a projection is the leaf's basename with the
\* trailing .gpg removed and the projection's suffix appended; only the final
\* suffix is affected, also when .gpg occurs earlier in the basename.
C19_DisplayNameStripsFinalSuffix ==
    \A de \in FileEntries :
        de.ent.Name =
            TrimSuffix(Last(Split(inodes[de.ent.Inode].secret, "/")), secretFileSuffix)
                \o suffixMap(inodes[de.ent.Inode].inodeType)

\* the path segments of a secret
Segments(secret) == { Split(secret, "/")[i] : i \in 1..Len(Split(secret, "/")) }

\* the store on disk holds a dot-prefixed entry, at the top or below d
HasHidden(items) ==
    \E i \in 1..Len(items) :
        \/ IsHidden(items[i].Name)
        \/ \E j \in 1..Len(items[i].Items) : IsHidden(items[i].Items[j].Name)

FoundAt(segs) == Resolve(Dir(<<>>, disk), segs, 1)

\* a secret file beside the path segs[1..k] carries its name: segs[1..k].gpg
Shadowed(segs, k) ==
    /\ k > 0
    /\ FoundAt(SubSeq(segs, 1, k - 1) \o <<segs[k] \o secretSuffix>>) # {}

\* the build reads the directory at segs: it lies at or below the prefix, no
\* path from the prefix down to it has a secret file of its name beside it,
\* and no segment below the prefix starts with a dot
IsRead(segs) ==
    /\ Len(segs) >= Len(Segs(Prefix))
    /\ SubSeq(segs, 1, Len(Segs(Prefix))) = Segs(Prefix)
    /\ \E item \in FoundAt(segs) : item.IsDir
    /\ \A k \in Len(Segs(Prefix))..Len(segs) : ~Shadowed(segs, k)
    /\ \A k \in (Len(Segs(Prefix)) + 1)..Len(segs) : ~HasPrefixAt(segs[k], 1, <<".">>)

\* reading some directory fails during the build: the prefix names neither a
\* secret nor a directory, or a directory the build reads cannot be read
FailsToRead ==
    \/ /\ ~Shadowed(Segs(Prefix), Len(Segs(Prefix)))
       /\ \A item \in FoundAt(Segs(Prefix)) : ~item.IsDir
    \/ \E p \in unreadable : IsRead(Segs(p))

\* the inode records the build makes of the nodes children[i..]
RECURSIVE Records(_, _)
Records(children, i) ==
    IF i > Len(children) THEN 0
    ELSE (IF children[i].IsLeaf THEN Len(ExpectedKinds)
          ELSE 1 + Records(children[i].Children, 1))
            + Records(children, i + 1)

\* every inode record of the tree at the prefix is in the table, the root too
BuildComplete ==
    /\ main.pc = "serving"
    /\ rootNode = GetPassTreeAt(disk, Prefix)
    /\ RootInodeID \in DOMAIN inodes
    /\ EntriesMatch(rootNode.Children, 1, inodes[RootInodeID].children, 1)
    /\ Cardinality(DOMAIN inodes) = 1 + Records(rootNode.Children, 1)

\* some handler can be invoked, with an id of the table or another
HandlerReachable ==
    \E t \in Threads :
        ENABLED (\/ StatFS(t)
                 \/ \E id \in OpsIds :
                        \/ OpenDir(t, id)
                        \/ OpenFile(t, id)
                        \/ GetInodeAttributes(t, id)
                        \/ ReadDir(t, id, 0, LargestDirent)
                        \/ ReadFile(t, id, 0, 1)
                 \/ \E parent \in OpsIds, name \in EntryNames \cup {MissingName} :
                        LookUpInode(t, parent, name))

\* some handler has been invoked
HandlerServed ==
    \/ call # NoCall
    \/ \E t \in Threads : result[t] # NoResult \/ pc[t] # "idle"

\* C21: no handler is reachable before the build has inserted every inode
\* record, the root included; when reading a directory fails during the build,
\* NewPassFS returns an error, no record is made, nothing is mounted and no
\* handler is reachable.
C21_NoHandlerBeforeBuild ==
    /\ (HandlerReachable \/ HandlerServed) => (mounted /\ BuildComplete)
    /\ mounted => BuildComplete
    /\ FailsToRead =>
          /\ ~mounted
          /\ inodes = EmptyMap
          /\ main.pc \in {"start", "failed", "exited"}
          /\ ~HandlerReachable

\* the build under way: records of a nested directory are in the table, the
\* root record is not, and no handler can be invoked
C21_Witness ==
    /\ main.pc = "build"
    /\ Cardinality(DOMAIN inodes) >= 3
    /\ RootInodeID \notin DOMAIN inodes
    /\ main.i <= Len(rootNode.Children)
    /\ ~HandlerReachable

\* the prefix names a single secret: the file <prefix>.gpg is in the store
SingleSecret == Shadowed(Segs(Prefix), Len(Segs(Prefix)))

\* the last call listed the root into a buffer with room for two entries
RootListed == call.op = "ReadDir" /\ call.id = RootInodeID /\ call.offset = 0

\* C23: when the prefix names a single secret the build succeeds, and the
\* root holds and lists exactly the enabled projections of that secret, each
\* under the secret's name and backed by its path; no other inode is made.
C23_SingleSecretMount ==
    SingleSecret =>
        /\ main.pc # "failed"
        /\ mounted =>
              /\ Len(inodes[RootInodeID].children) = Len(ExpectedKinds)
              /\ Cardinality(DOMAIN inodes) = 1 + Len(ExpectedKinds)
              /\ \A k \in 1..Len(ExpectedKinds) :
                    /\ IsFileEntry(inodes[RootInodeID].children[k],
                                   Prefix \o secretSuffix, ExpectedKinds[k])
                    /\ inodes[RootInodeID].children[k].Name =
                            Last(Split(Prefix, "/")) \o suffixMap(ExpectedKinds[k])
              /\ RootListed => call.entries = inodes[RootInodeID].children

\* the secret d.gpg mounted by the prefix d, with a directory d beside it that
\* cannot be read, both projections enabled: the root listed
C23_Witness ==
    /\ mounted
    /\ SingleSecret
    /\ Prefix = DirD
    /\ \E item \in FoundAt(Segs(DirD)) : item.IsDir
    /\ unreadable = {DirD}
    /\ RootListed
    /\ Len(call.entries) = 2

\* the entries ents[j..] are what the store entries items[i..] of the
\* directory at path call for: a directory entry under its own name per
\* sub-directory, listing in turn what that directory holds, and the enabled
\* projections per file; dot-prefixed entries have none
RECURSIVE ListingMatches(_, _, _, _, _)
ListingMatches(items, i, ents, j, path) ==
    IF i > Len(items) THEN j = Len(ents) + 1
    ELSE IF HasPrefixAt(items[i].Name, 1, <<".">>)
    THEN ListingMatches(items, i + 1, ents, j, path)
    ELSE IF items[i].IsDir
    THEN /\ j <= Len(ents)
         /\ ents[j].Type = DT_Directory
         /\ ents[j].Name = items[i].Name
         /\ ents[j].Inode \in DOMAIN inodes
         /\ inodes[ents[j].Inode].dir
         /\ ListingMatches(items[i].Items, 1, inodes[ents[j].Inode].children, 1,
                           PathJoin(path, items[i].Name))
         /\ ListingMatches(items, i + 1, ents, j + 1, path)
    ELSE /\ j + Len(ExpectedKinds) - 1 <= Len(ents)
         /\ \A k \in 1..Len(ExpectedKinds) :
                IsFileEntry(ents[j + k - 1], PathJoin(path, items[i].Name),
                            ExpectedKinds[k])
         /\ ListingMatches(items, i + 1, ents, j + Len(ExpectedKinds), path)

\* C24: every non-hidden directory below the mounted prefix is a directory
\* inode listed in its parent under its own basename, and lists one directory
\* entry per non-hidden sub-directory and the enabled projections of each
\* non-hidden file; also for a directory d beside a secret file d.gpg.
C24_DirectoriesMirrorStore ==
    (mounted /\ ~SingleSecret) =>
        ListingMatches(DirAt(disk, Prefix).Items, 1,
                       inodes[RootInodeID].children, 1, Prefix)

\* C25: within every directory the display names are pairwise distinct, and
\* lookup of an entry's name resolves that entry's own inode; also with both
\* projections enabled and for leaves whose basename holds no .gpg.
C25_NamesDistinctInDirectory ==
    \A d \in Dirs : \A i \in 1..Len(inodes[d].children) :
        /\ \A j \in 1..Len(inodes[d].children) :
              i # j => inodes[d].children[i].Name # inodes[d].children[j].Name
        /\ LookUpChild(d, inodes[d].children[i].Name) = inodes[d].children[i].Inode

\* the places [dir, i] whose directory entry refers to the inode id
Refs(id) ==
    UNION { { <<d, i>> : i \in {k \in 1..Len(inodes[d].children) :
                                    inodes[d].children[k].Inode = id} } :
                d \in DOMAIN inodes }

\* C29: after the build the table is a tree: every directory entry refers to
\* a record of the table, is of type Directory exactly when that record is a
\* directory, every inode but the root is referred to by exactly one entry of
\* one directory, and the root by none.
C29_TableIsATree ==
    mounted =>
        /\ \A d \in DOMAIN inodes : \A i \in 1..Len(inodes[d].children) :
              /\ inodes[d].dir
              /\ inodes[d].children[i].Inode \in DOMAIN inodes
              /\ inodes[d].children[i].Type = DT_Directory
                    <=> inodes[inodes[d].children[i].Inode].dir
        /\ \A id \in DOMAIN inodes \ {RootInodeID} : Cardinality(Refs(id)) = 1
        /\ Refs(RootInodeID) = {}

\* a mount of nested directories: three directory inodes and files in each
C29_Witness ==
    /\ mounted
    /\ Cardinality(Dirs) >= 3
    /\ Cardinality(DOMAIN inodes) >= 7
    /\ \A d \in Dirs : Len(inodes[d].children) >= 2

(***************************************************************************)
(* Properties: the handlers interleaved with a lookup (SpecServe).         *)
(***************************************************************************)
\* C22: once the build is complete no handler, alone or interleaved with
\* another, adds, removes or changes an inode record, a children list or the
\* id counter, and nothing unmounts the server; of the tables of passFS only
\* the size cache changes.
C22_TablesFrozenAfterBuild ==
    [][mounted =>
          /\ mounted'
          /\ inodes' = inodes
          /\ allocatableInode' = allocatableInode
          /\ allocLog' = allocLog
          /\ options' = options
          /\ rootNode' = rootNode]_vars

\* the second thread read a file while the first, with one size cached
\* already, was decrypting for another lookup
C22_Witness ==
    /\ mounted
    /\ pc[1] = "decrypt"
    /\ DOMAIN sizeMap # {}
    /\ call.op = "ReadFile"
    /\ call.err = "nil"
    /\ result[2].op = "ReadFile"

(***************************************************************************)
(* Properties: lookups of directories, the lock and termination (Spec).    *)
(***************************************************************************)
\* C26: decryption is invoked for file inodes only: a lookup that resolves a
\* directory returns its attributes without a decryption and without a
\* size-cache entry for the directory's id.
C26_NoDecryptionForDirectories ==
    \A id \in Dirs :
        /\ decryptCalls[id] = 0
        /\ id \notin DOMAIN sizeMap
        /\ \A t \in Threads : pc[t] = "decrypt" => req[t].id # id

(***************************************************************************)
(* Properties: the lock around the size cache and the id counter (SpecLock).*)
(***************************************************************************)
\* thread t is between Lock and Unlock, in getSize or in allocateInode
Critical(t) == pc[t] \in {"check", "decrypt", "alloc_read", "alloc_incr"}

\* C27: the size cache is read and written, and the id counter read and
\* incremented, by the one thread that holds the lock, and by none outside
\* it; concurrent allocateInode calls return different ids and every size a
\* getSize stored is in the cache.
C27_LockGuardsCacheAndCounter ==
    /\ [](/\ \A t \in Threads : Critical(t) => mutex = t
          /\ \A i, j \in 1..Len(allocLog) : i < j => allocLog[i] < allocLog[j]
          /\ \A id \in DOMAIN decryptOk : decryptOk[id] >= 1 => id \in DOMAIN sizeMap)
    /\ [][(mounted /\ (sizeMap' # sizeMap \/ allocatableInode' # allocatableInode)) =>
            /\ mutex \in Threads
            /\ pc[mutex] \in {"decrypt", "alloc_incr"}
            /\ pc'[mutex] = "idle"
            /\ mutex' = NoThread]_vars

\* a thread waits in getSize for the lock that another holds in
\* allocateInode, after both have allocated an id and a size was cached
C27_Witness ==
    /\ \E t, u \in Threads :
          /\ pc[t] = "lock"
          /\ pc[u] = "alloc_incr"
          /\ mutex = u
    /\ Len(allocLog) >= Cardinality(DOMAIN inodes) - 1 + (MaxAllocs - 1)
    /\ DOMAIN sizeMap # {}

(***************************************************************************)
(* Properties: termination of getSize and of lookup (SpecLive).            *)
(***************************************************************************)
\* C28: getSize releases the lock on every return path, so a thread that has
\* returned never holds it; every lookup under way returns, and the lock,
\* once taken, is released.
C28_GetSizeReturnsAndUnlocks ==
    /\ [](\A t \in Threads : pc[t] \in {"idle", "lock"} => mutex # t)
    /\ \A t \in Threads : (pc[t] # "idle") ~> (pc[t] = "idle")
    /\ (mutex # NoThread) ~> (mutex = NoThread)

\* one lookup has returned the failure of its decryption and another, which
\* waited for the lock meanwhile, its size; the lock is free
C28_Witness ==
    /\ mutex = NoThread
    /\ \A t \in Threads : pc[t] = "idle"
    /\ \E t, u \in Threads :
          /\ result[t].op = "LookUpInode" /\ result[t].err = "error"
          /\ result[u].op = "LookUpInode" /\ result[u].err = "nil"
          /\ decryptCalls[result[u].inode] >= 2

====
